---- MODULE Spec2Model ----
(***************************************************************************)
(* AdvancedCache (tools/advanced-cache): a two-tier cache (memory, disk)   *)
(* with compression, TTL expiry, LRU / oldest-first eviction, pattern      *)
(* invalidation and token-overlap ("semantic") lookup.                     *)
(*                                                                         *)
(* Strings are modelled as sequences of words (the string is the words     *)
(* joined by single blanks), values as payloads [enc, id]: enc = "json" is *)
(* a caller's value, enc = "deflate-base64" the text compress() makes of   *)
(* it, enc = "null" the JavaScript null.  Date.now() is the variable now;  *)
(* one method call reads the clock at one instant.                         *)
(*                                                                         *)
(* ResponseCache (tools/response-cache) and AgentManager                   *)
(* (tools/agent-manager) are modelled beside it, each with its own         *)
(* specification; the clock, the call record and the call budget are       *)
(* shared.  WebhookManager (tools/webhook-manager) is modelled with its    *)
(* deliveries as processes: one step per settled request or elapsed sleep. *)
(***************************************************************************)
EXTENDS Integers, Sequences, FiniteSets, TLC

VARIABLES memoryCache, diskCache, stats, now, last, accessOrder, deadline,
          budget,
          responseTtl, responseMemoryCache, cacheDir, responseInputs,
          agents, activeAgent, agentHistory,
          webhooks, webhookObjects, deliveryLog, deliveries

\* the AdvancedCache, the ResponseCache, the AgentManager and the
\* WebhookManager
cacheVars == <<memoryCache, diskCache, stats, accessOrder, deadline>>
responseVars == <<responseTtl, responseMemoryCache, cacheDir, responseInputs>>
agentVars == <<agents, activeAgent, agentHistory>>
webhookVars == <<webhooks, webhookObjects, deliveryLog, deliveries>>

vars == <<cacheVars, responseVars, agentVars, webhookVars, now, last, budget>>

----------------------------------------------------------------------------
(* Bounds of the exploration *)

\* calls made on one cache instance
MaxOps == 3
\* calls made on one cache instance in the longer runs on small inputs
MaxOpsLong == 5
\* milliseconds the clock may advance
MaxTime == 2
\* calls made on the response caches of one directory
MaxOpsResponse == 3
\* milliseconds the clock may advance in the runs of the response cache
MaxTimeResponse == 3
\* calls made on one agent manager
MaxOpsAgent == 4

----------------------------------------------------------------------------
(* Constructor options (lines 16-20), scaled down *)

maxMemorySize == 6
maxDiskSize == 11
compressionThreshold == 3
ttl == 2
semanticThreshold == <<85, 100>>

----------------------------------------------------------------------------
(* Inputs *)

\* the JavaScript null given where a key string is expected
NullKey == <<"<null>">>

Keys == {<<"a">>, <<"A">>, <<"a", "b">>}
Queries == {<<"a">>, <<"c">>}

Null == [enc |-> "null", id |-> 0]
Raw(id) == [enc |-> "json", id |-> id]
Values == {Raw(1), Raw(2), Raw(3), Raw(4)}
\* an object that refers to itself: JSON.stringify throws TypeError on it
Cyclic == [enc |-> "cyclic", id |-> 0]

\* options.ttl; 0 stands for an absent (or zero, equally falsy) ttl option
TtlOptions == {0, 1}

\* the value and ttl option of the calls of set: every value without a ttl,
\* and a short ttl with a memory-tier and with a disk-tier value
SetCalls ==
    {<<value, 0>> : value \in Values}
        \cup {<<value, t>> : value \in {Raw(1), Raw(3)}, t \in TtlOptions}

\* thresholds as fractions <<numerator, denominator>>
Thresholds == {<<0, 1>>, <<1, 2>>, semanticThreshold}

\* options.pattern; "" stands for an absent pattern, "(" is no valid RegExp
Patterns == {"a", "("}

\* the calls of invalidate: each key and null without a pattern, and each
\* pattern with a key and with null (pattern mode does not look at the key)
InvalidateCalls ==
    {<<key, "">> : key \in Keys \cup {NullKey}}
        \cup {<<key, pattern>> : key \in {<<"a">>, NullKey}, pattern \in Patterns}

\* The four values, by size: Raw(1) is stored as it is in the memory tier;
\* Raw(2) is compressed and stored in the memory tier; Raw(3) is compressed
\* and stored in the disk tier; Raw(4) is compressed and stored in the disk
\* tier, and is larger than maxDiskSize on its own.

\* JSON.stringify(value).length of a caller's value
RawSize(id) == CASE id = 1 -> 2 [] id = 2 -> 4 [] id = 3 -> 6 [] OTHER -> 14
\* JSON.stringify(text).length of the base64 text of the deflated value
DeflatedSize(id) == CASE id = 1 -> 4 [] id = 2 -> 5 [] id = 3 -> 5 [] OTHER -> 12

----------------------------------------------------------------------------
(* Helpers of the class *)

hashKey(key) == <<"sha256", key>>

compress(value) == [enc |-> "deflate-base64", id |-> value.id]

decompress(compressed, wasCompressed) ==
    IF ~wasCompressed THEN compressed ELSE [enc |-> "json", id |-> compressed.id]

getSize(value) ==
    IF value.enc = "json" THEN RawSize(value.id) ELSE DeflatedSize(value.id)

\* JSON.stringify(value) throws, and getSize with it
getSizeThrows(value) == value.enc = "cyclic"

isExpired(entry, t) == t > entry.expiresAt

\* String.prototype.toLowerCase on one word
ToLowerCase(w) == IF w = "A" THEN "a" ELSE w

\* new Set(str.toLowerCase().split(/\s+/)); "".split gives [""]
Tokens(str) ==
    IF str = <<>> THEN {""} ELSE {ToLowerCase(str[i]) : i \in DOMAIN str}

\* a fraction <<n, d>> stands for the double n / d
FracGT(a, b) == a[1] * b[2] > b[1] * a[2]
FracGE(a, b) == a[1] * b[2] >= b[1] * a[2]
FracEQ(a, b) == a[1] * b[2] = b[1] * a[2]

calculateSimilarity(str1, str2) ==
    LET tokens1 == Tokens(str1)
        tokens2 == Tokens(str2)
        intersection == {x \in tokens1 : x \in tokens2}
        union == tokens1 \cup tokens2
    IN  <<Cardinality(intersection), Cardinality(union)>>

\* new RegExp(pattern): a SyntaxError for "("
RegExpValid(pattern) == pattern # "("

\* regex.test(str) for a one-letter pattern: an unanchored search
RegExpTest(pattern, str) == \E i \in DOMAIN str : str[i] = pattern

----------------------------------------------------------------------------
(* The JavaScript Map, kept as the sequence of its values in insertion     *)
(* order; every entry carries its own key (entry.hash)                     *)

MapHas(m, hash) == \E i \in DOMAIN m : m[i].hash = hash

MapGet(m, hash) == m[CHOOSE i \in DOMAIN m : m[i].hash = hash]

\* Map.prototype.set keeps the place of a key that is already there
MapSet(m, hash, entry) ==
    IF MapHas(m, hash)
    THEN [i \in DOMAIN m |-> IF m[i].hash = hash THEN entry ELSE m[i]]
    ELSE Append(m, entry)

MapDelete(m, hash) == SelectSeq(m, LAMBDA e : e.hash # hash)

MapKeys(m) == {m[i].hash : i \in DOMAIN m}

RECURSIVE SumSizes(_)
SumSizes(m) ==
    IF m = <<>> THEN 0 ELSE getSize(Head(m).value) + SumSizes(Tail(m))

getMemorySizeUsage == SumSizes(memoryCache)

getDiskSizeUsage == SumSizes(diskCache)

----------------------------------------------------------------------------
(* Eviction.  A run record c carries the two maps and the counters through *)
(* one method call, with what the call evicted, where it stored, and what  *)
(* it returns.                                                             *)

\* sorted[0] of the stable sort by lastAccess ascending
LruFirst(m) ==
    m[CHOOSE i \in DOMAIN m : \A j \in DOMAIN m :
        \/ m[i].lastAccess < m[j].lastAccess
        \/ (m[i].lastAccess = m[j].lastAccess /\ i <= j)]

\* sorted[0] of the stable sort by timestamp ascending
OldestFirst(m) ==
    m[CHOOSE i \in DOMAIN m : \A j \in DOMAIN m :
        \/ m[i].timestamp < m[j].timestamp
        \/ (m[i].timestamp = m[j].timestamp /\ i <= j)]

checkMemoryEviction(c) ==
    LET currentSize == SumSizes(c.mem)
    IN  IF currentSize > maxMemorySize
        THEN LET toEvict == LruFirst(c.mem)
             IN  [c EXCEPT !.mem = MapDelete(@, toEvict.hash),
                           !.stats.evictions = @ + 1,
                           !.evicted = Append(@, toEvict)]
        ELSE c

\* checkDiskEviction as a sweep: it evicts until the tier is within its budget
RECURSIVE checkDiskEvictionSweep(_)
checkDiskEvictionSweep(c) ==
    LET currentSize == SumSizes(c.disk)
    IN  IF currentSize > maxDiskSize
        THEN LET toEvict == OldestFirst(c.disk)
             IN  checkDiskEvictionSweep(
                     [c EXCEPT !.disk = MapDelete(@, toEvict.hash),
                               !.stats.evictions = @ + 1,
                               !.evicted = Append(@, toEvict)])
        ELSE c

checkDiskEviction(c) ==
    LET currentSize == SumSizes(c.disk)
    IN  IF currentSize > maxDiskSize
        THEN LET toEvict == OldestFirst(c.disk)
             IN  [c EXCEPT !.disk = MapDelete(@, toEvict.hash),
                           !.stats.evictions = @ + 1,
                           !.evicted = Append(@, toEvict)]
        ELSE c

----------------------------------------------------------------------------
(* The methods, as functions of a run record *)

\* set with the entry stored before its size is taken
setPartial(c, key, value, options, t) ==
    LET hash == hashKey(key)
        entryTtl == IF options.ttl # 0 THEN options.ttl ELSE ttl
        size == getSize(value)
        shouldCompress == size > compressionThreshold
        entry == [key |-> key,
                  value |-> IF shouldCompress THEN compress(value) ELSE value,
                  hash |-> hash,
                  timestamp |-> t,
                  ttl |-> entryTtl,
                  expiresAt |-> t + entryTtl,
                  accessCount |-> 0,
                  lastAccess |-> t,
                  compressed |-> shouldCompress]
        c1 == IF shouldCompress
              THEN [c EXCEPT !.stats.compression = @ + 1]
              ELSE c
    IN  IF getSizeThrows(value)
        THEN [c EXCEPT !.mem = MapSet(@, hash, entry), !.threw = TRUE]
        ELSE IF size < maxMemorySize
        THEN checkMemoryEviction(
                 [c1 EXCEPT !.mem = MapSet(@, hash, entry), !.tier = "memory",
                            !.written = entry.expiresAt])
        ELSE checkDiskEviction(
                 [c1 EXCEPT !.disk = MapSet(@, hash, entry), !.tier = "disk",
                            !.written = entry.expiresAt])

\* set with a size equal to maxMemorySize still taken into the memory tier
setAtMost(c, key, value, options, t) ==
    LET hash == hashKey(key)
        entryTtl == IF options.ttl # 0 THEN options.ttl ELSE ttl
        size == getSize(value)
        shouldCompress == size > compressionThreshold
        entry == [key |-> key,
                  value |-> IF shouldCompress THEN compress(value) ELSE value,
                  hash |-> hash,
                  timestamp |-> t,
                  ttl |-> entryTtl,
                  expiresAt |-> t + entryTtl,
                  accessCount |-> 0,
                  lastAccess |-> t,
                  compressed |-> shouldCompress]
        c1 == IF shouldCompress
              THEN [c EXCEPT !.stats.compression = @ + 1]
              ELSE c
    IN  IF getSizeThrows(value)
        THEN [c EXCEPT !.threw = TRUE]
        ELSE IF size <= maxMemorySize
        THEN checkMemoryEviction(
                 [c1 EXCEPT !.mem = MapSet(@, hash, entry), !.tier = "memory",
                            !.written = entry.expiresAt])
        ELSE checkDiskEviction(
                 [c1 EXCEPT !.disk = MapSet(@, hash, entry), !.tier = "disk",
                            !.written = entry.expiresAt])

set(c, key, value, options, t) ==
    LET hash == hashKey(key)
        entryTtl == IF options.ttl # 0 THEN options.ttl ELSE ttl
        size == getSize(value)
        shouldCompress == size > compressionThreshold
        entry == [key |-> key,
                  value |-> IF shouldCompress THEN compress(value) ELSE value,
                  hash |-> hash,
                  timestamp |-> t,
                  ttl |-> entryTtl,
                  expiresAt |-> t + entryTtl,
                  accessCount |-> 0,
                  lastAccess |-> t,
                  compressed |-> shouldCompress]
        c1 == IF shouldCompress
              THEN [c EXCEPT !.stats.compression = @ + 1]
              ELSE c
    IN  IF getSizeThrows(value)
        THEN [c EXCEPT !.threw = TRUE]
        ELSE IF size < maxMemorySize
        THEN checkMemoryEviction(
                 [c1 EXCEPT !.mem = MapSet(@, hash, entry), !.tier = "memory",
                            !.written = entry.expiresAt])
        ELSE checkDiskEviction(
                 [c1 EXCEPT !.disk = MapSet(@, hash, entry), !.tier = "disk",
                            !.written = entry.expiresAt])

\* get with the this.stats.hits++ of the disk branch left out
getDiskHitUncounted(c, key, t) ==
    LET hash == hashKey(key)
        inMemory == MapHas(c.mem, hash)
        memoryHit == inMemory /\ ~isExpired(MapGet(c.mem, hash), t)
        c1 == IF inMemory /\ ~memoryHit
              THEN [c EXCEPT !.mem = MapDelete(@, hash)]
              ELSE c
        inDisk == MapHas(c1.disk, hash)
        diskHit == inDisk /\ ~isExpired(MapGet(c1.disk, hash), t)
    IN  IF memoryHit
        THEN LET entry == MapGet(c.mem, hash)
             IN  [c EXCEPT !.stats.hits = @ + 1,
                           !.mem = MapSet(@, hash,
                                      [entry EXCEPT !.accessCount = @ + 1,
                                                    !.lastAccess = t]),
                           !.result = entry.value,
                           !.source = "memory"]
        ELSE IF diskHit
        THEN LET entry == MapGet(c1.disk, hash)
                 value == decompress(entry.value, entry.compressed)
                 c2 == set(c1, key, value, [ttl |-> ttl], t)
             IN  [c2 EXCEPT !.result = value, !.source = "disk"]
        ELSE LET c2 == IF inDisk
                       THEN [c1 EXCEPT !.disk = MapDelete(@, hash)]
                       ELSE c1
             IN  [c2 EXCEPT !.stats.misses = @ + 1, !.result = Null]

\* get with the delete of an expired disk-tier entry left out
getKeepingExpired(c, key, t) ==
    LET hash == hashKey(key)
        inMemory == MapHas(c.mem, hash)
        memoryHit == inMemory /\ ~isExpired(MapGet(c.mem, hash), t)
        c1 == IF inMemory /\ ~memoryHit
              THEN [c EXCEPT !.mem = MapDelete(@, hash)]
              ELSE c
        inDisk == MapHas(c1.disk, hash)
        diskHit == inDisk /\ ~isExpired(MapGet(c1.disk, hash), t)
    IN  IF memoryHit
        THEN LET entry == MapGet(c.mem, hash)
             IN  [c EXCEPT !.stats.hits = @ + 1,
                           !.mem = MapSet(@, hash,
                                      [entry EXCEPT !.accessCount = @ + 1,
                                                    !.lastAccess = t]),
                           !.result = entry.value,
                           !.source = "memory"]
        ELSE IF diskHit
        THEN LET entry == MapGet(c1.disk, hash)
                 value == decompress(entry.value, entry.compressed)
                 c2 == set(c1, key, value, [ttl |-> ttl], t)
             IN  [c2 EXCEPT !.stats.hits = @ + 1,
                            !.result = value,
                            !.source = "disk"]
        ELSE [c1 EXCEPT !.stats.misses = @ + 1, !.result = Null]

get(c, key, t) ==
    LET hash == hashKey(key)
        inMemory == MapHas(c.mem, hash)
        memoryHit == inMemory /\ ~isExpired(MapGet(c.mem, hash), t)
        c1 == IF inMemory /\ ~memoryHit
              THEN [c EXCEPT !.mem = MapDelete(@, hash)]
              ELSE c
        inDisk == MapHas(c1.disk, hash)
        diskHit == inDisk /\ ~isExpired(MapGet(c1.disk, hash), t)
    IN  IF memoryHit
        THEN LET entry == MapGet(c.mem, hash)
             IN  [c EXCEPT !.stats.hits = @ + 1,
                           !.mem = MapSet(@, hash,
                                      [entry EXCEPT !.accessCount = @ + 1,
                                                    !.lastAccess = t]),
                           !.result = entry.value,
                           !.source = "memory"]
        ELSE IF diskHit
        THEN LET entry == MapGet(c1.disk, hash)
                 value == decompress(entry.value, entry.compressed)
                 c2 == set(c1, key, value, [ttl |-> ttl], t)
             IN  [c2 EXCEPT !.stats.hits = @ + 1,
                            !.result = value,
                            !.source = "disk"]
        ELSE LET c2 == IF inDisk
                       THEN [c1 EXCEPT !.disk = MapDelete(@, hash)]
                       ELSE c1
             IN  [c2 EXCEPT !.stats.misses = @ + 1, !.result = Null]

\* the for-of loop over this.memoryCache, best = [score, match]; match is
\* <<>> for bestMatch = null
RECURSIVE ScanMemory(_, _, _, _)
ScanMemory(m, query, threshold, best) ==
    IF m = <<>> THEN best
    ELSE LET entry == Head(m)
             similarity == calculateSimilarity(query, entry.key)
         IN  ScanMemory(Tail(m), query, threshold,
                 IF FracGT(similarity, best.score) /\ FracGE(similarity, threshold)
                 THEN [score |-> similarity, match |-> <<entry>>]
                 ELSE best)

\* semanticGet that also files the match under the hash of the query
semanticGetIndexing(c, query, threshold, t) ==
    LET best == ScanMemory(c.mem, query, threshold,
                           [score |-> <<0, 1>>, match |-> <<>>])
    IN  IF best.match # <<>> /\ ~isExpired(best.match[1], t)
        THEN [c EXCEPT !.stats.hits = @ + 1,
                       !.mem = MapSet(@, hashKey(query),
                                  [best.match[1] EXCEPT !.hash = hashKey(query)]),
                       !.result = best.match[1].value,
                       !.similarity = best.score,
                       !.source = "memory",
                       !.found = TRUE]
        ELSE c

semanticGet(c, query, threshold, t) ==
    LET best == ScanMemory(c.mem, query, threshold,
                           [score |-> <<0, 1>>, match |-> <<>>])
    IN  IF best.match # <<>> /\ ~isExpired(best.match[1], t)
        THEN [c EXCEPT !.stats.hits = @ + 1,
                       !.result = best.match[1].value,
                       !.similarity = best.score,
                       !.source = "memory",
                       !.found = TRUE]
        ELSE c

invalidateByPattern(c, pattern) ==
    [c EXCEPT !.mem = SelectSeq(@, LAMBDA e : ~RegExpTest(pattern, e.key)),
              !.disk = SelectSeq(@, LAMBDA e : ~RegExpTest(pattern, e.key))]

\* invalidate with the SyntaxError of new RegExp caught and dropped
invalidateSwallowing(c, key, options) ==
    IF key = NullKey
    THEN [c EXCEPT !.threw = TRUE]
    ELSE IF options.pattern # ""
    THEN IF RegExpValid(options.pattern)
         THEN invalidateByPattern(c, options.pattern)
         ELSE c
    ELSE [c EXCEPT !.mem = MapDelete(@, hashKey(key)),
                   !.disk = MapDelete(@, hashKey(key))]

\* invalidate with the delete on this.diskCache left out
invalidateMemoryOnly(c, key, options) ==
    IF key = NullKey
    THEN [c EXCEPT !.threw = TRUE]
    ELSE IF options.pattern # ""
    THEN IF RegExpValid(options.pattern)
         THEN invalidateByPattern(c, options.pattern)
         ELSE [c EXCEPT !.threw = TRUE]
    ELSE [c EXCEPT !.mem = MapDelete(@, hashKey(key))]

invalidate(c, key, options) ==
    IF key = NullKey
    THEN [c EXCEPT !.threw = TRUE]
    ELSE IF options.pattern # ""
    THEN IF RegExpValid(options.pattern)
         THEN invalidateByPattern(c, options.pattern)
         ELSE [c EXCEPT !.threw = TRUE]
    ELSE [c EXCEPT !.mem = MapDelete(@, hashKey(key)),
                   !.disk = MapDelete(@, hashKey(key))]

NoStats == [hits |-> 0, misses |-> 0, compression |-> 0, evictions |-> 0]

\* clear with the reset of this.stats left out
clearKeepingStats(c) == [c EXCEPT !.mem = <<>>, !.disk = <<>>]

clear(c) == [c EXCEPT !.mem = <<>>, !.disk = <<>>, !.stats = NoStats]

\* Number.prototype.toFixed(2) of n / d, as the count of hundredths its
\* decimal text shows ("75.00" is 7500); ties round up
toFixed2(n, d) == (200 * n + d) \div (2 * d)

\* getStats with the factor 100 left out
getStatsFraction ==
    LET totalRequests == stats.hits + stats.misses
    IN  [hits |-> stats.hits,
         misses |-> stats.misses,
         hitRate |-> [type |-> "string",
                      hundredths |-> IF totalRequests > 0
                                     THEN toFixed2(stats.hits, totalRequests)
                                     ELSE toFixed2(0, 1)],
         compressionCount |-> stats.compression,
         evictionCount |-> stats.evictions,
         memoryEntries |-> Len(memoryCache),
         diskEntries |-> Len(diskCache),
         memorySize |-> getMemorySizeUsage,
         diskSize |-> getDiskSizeUsage]

getStats ==
    LET totalRequests == stats.hits + stats.misses
    IN  [hits |-> stats.hits,
         misses |-> stats.misses,
         hitRate |-> [type |-> "string",
                      hundredths |-> IF totalRequests > 0
                                     THEN toFixed2(stats.hits * 100, totalRequests)
                                     ELSE toFixed2(0, 1)],
         compressionCount |-> stats.compression,
         evictionCount |-> stats.evictions,
         memoryEntries |-> Len(memoryCache),
         diskEntries |-> Len(diskCache),
         memorySize |-> getMemorySizeUsage,
         diskSize |-> getDiskSizeUsage]

----------------------------------------------------------------------------
(* ResponseCache: a Map in memory in front of one JSON file per key in the  *)
(* directory cacheDir.  The variable cacheDir is the directory, a function  *)
(* from keys to what JSON.parse reads from the key's file.                  *)

\* 24 * 60 * 60 * 1000 ms, scaled down
ResponseDefaultTtl == 3

\* the 100 characters of input.substring(0, 100), scaled down to words
InputKept == 1

Undefined == [enc |-> "undefined", id |-> 0]
NotANumber == [enc |-> "NaN", id |-> 0]

ResponseInputs == {<<"test-key">>, <<"expire-key", "long">>}
Responses == {Raw(1), Null, Undefined, NotANumber, Cyclic}
\* the second argument of the constructor
TtlArguments == {1, ResponseDefaultTtl}

generateKey(input) == <<"sha256", input>>

Substring(input) ==
    SubSeq(input, 1, IF Len(input) < InputKept THEN Len(input) ELSE InputKept)

\* JSON.stringify(cached) throws TypeError
StringifyThrows(cached) == cached.value.enc = "cyclic"

\* JSON.parse(JSON.stringify(cached)): NaN is written as null; an undefined
\* value is left out of the text and read back as undefined
ParseStringify(cached) ==
    [cached EXCEPT !.value = IF @ = NotANumber THEN Null ELSE @]

\* a Map or a directory without entries, Map.set or writeFileSync, and
\* Map.delete or unlinkSync
Empty == [key \in {} |-> Null]
Put(f, key, x) == [k \in DOMAIN f \cup {key} |-> IF k = key THEN x ELSE f[k]]
Drop(f, key) == [k \in DOMAIN f \ {key} |-> f[k]]

\* constructor: the ttl argument is not among its parameters
responseNew(c, ttlArgument) ==
    [c EXCEPT !.ttl = ResponseDefaultTtl, !.mem = Empty]

responseGet(c, input, t) ==
    LET key == generateKey(input)
        inMemory == key \in DOMAIN c.mem
        memoryHit == inMemory /\ t - c.mem[key].timestamp < c.ttl
        c1 == IF inMemory /\ ~memoryHit
              THEN [c EXCEPT !.mem = Drop(@, key)]
              ELSE c
    IN  IF memoryHit
        THEN [c EXCEPT !.result = c.mem[key].value]
        ELSE IF key \in DOMAIN c1.dir
        THEN LET cached == c1.dir[key]
             IN  IF t - cached.timestamp < c1.ttl
                 THEN [c1 EXCEPT !.mem = Put(@, key, cached),
                                 !.result = cached.value]
                 ELSE [c1 EXCEPT !.dir = Drop(@, key)]
        ELSE c1

\* set that keeps in memory what it writes to the file
responseSetParsed(c, input, response, t) ==
    LET key == generateKey(input)
        cached == [timestamp |-> t, value |-> response,
                   input |-> Substring(input)]
    IN  [c EXCEPT !.mem = Put(@, key, ParseStringify(cached)),
                  !.dir = IF StringifyThrows(cached) THEN @
                          ELSE Put(@, key, ParseStringify(cached))]

responseSet(c, input, response, t) ==
    LET key == generateKey(input)
        cached == [timestamp |-> t, value |-> response,
                   input |-> Substring(input)]
    IN  [c EXCEPT !.mem = Put(@, key, cached),
                  !.dir = IF StringifyThrows(cached) THEN @
                          ELSE Put(@, key, ParseStringify(cached))]

responseClear(c) == [c EXCEPT !.mem = Empty, !.dir = Empty]

ResponseCacheConstructed ==
    /\ responseTtl = ResponseDefaultTtl
    /\ responseMemoryCache = Empty
    /\ cacheDir = Empty
    /\ responseInputs = {}

\* the instance at the start of a method call
ResponseRun == [ttl |-> responseTtl, mem |-> responseMemoryCache,
                dir |-> cacheDir, result |-> Null]

\* the record of a call; ttlArgument is the argument the instance was
\* constructed with
ResponseCall(op, input, value, ttlArgument, r) ==
    [op |-> op, input |-> input, value |-> value, ttlArgument |-> ttlArgument,
     time |-> now, result |-> r.result]

ResponseCommit(r, call) ==
    /\ responseTtl' = r.ttl
    /\ responseMemoryCache' = r.mem
    /\ cacheDir' = r.dir
    /\ last' = call
    /\ budget' = budget - 1
    /\ UNCHANGED <<now, cacheVars, agentVars, webhookVars>>

----------------------------------------------------------------------------
(* AgentManager: the registry of agents, the active agent and the history   *)
(* of activations.  An agent's configuration is left out but for its id.    *)

\* this.activeAgent = null
NoAgent == "<null>"

DefaultAgentIds ==
    {"researcher", "coder", "writer", "analyst", "tutor", "solver", "support"}

AgentIds == {"researcher", "coder", "custom", "non-existent-agent"}
\* ids given to registerAgent
NewAgentIds == {"custom"}

registered(id, t) == [id |-> id, createdAt |-> t, usageCount |-> 0, totalTokens |-> 0]

\* a manager record m carries the three fields through one method call, with
\* what the call returns (<<>> for null) and whether it threw
registerAgent(m, id, t) == [m EXCEPT !.agents = Put(@, id, registered(id, t))]

activateAgent(m, agentId, t) ==
    IF agentId \notin DOMAIN m.agents
    THEN m
    ELSE [m EXCEPT !.activeAgent = agentId,
                   !.agentHistory = Append(@, [agentId |-> agentId,
                                               activatedAt |-> t,
                                               timestamp |-> t]),
                   !.result = <<m.agents[agentId]>>]

clearHistory(m) == [m EXCEPT !.agentHistory = <<>>]

AgentManagerConstructed ==
    /\ agents = [id \in DefaultAgentIds |-> registered(id, 0)]
    /\ activeAgent = NoAgent
    /\ agentHistory = <<>>

AgentRun == [agents |-> agents, activeAgent |-> activeAgent,
             agentHistory |-> agentHistory, result |-> <<>>, threw |-> FALSE]

AgentCall(op, agentId, m) ==
    [op |-> op, agentId |-> agentId, time |-> now, result |-> m.result,
     threw |-> m.threw]

AgentCommit(m, call) ==
    /\ agents' = m.agents
    /\ activeAgent' = m.activeAgent
    /\ agentHistory' = m.agentHistory
    /\ last' = call
    /\ budget' = budget - 1
    /\ UNCHANGED <<now, cacheVars, responseVars, webhookVars>>

----------------------------------------------------------------------------
(* WebhookManager (tools/webhook-manager)                                  *)
(* Event names and patterns are sequences of the segments between colons.  *)
(* webhookObjects is the heap of the webhook objects that register made;   *)
(* webhooks, the Map, and each delivery refer to an object by its place.   *)

\* calls made on one webhook manager
MaxOpsWebhook == 3

maxLogSize == 1000
DefaultRetries == 3
NoSecret == "<null>"

\* config.retries: <<>> when the caller gave none
RetriesOptions == {<<>>, <<0>>, <<1>>, <<2>>}
ValidUrl == "https://example.com/hook"
InvalidUrl == "not-a-url"
EventPatterns == {<<"*">>, <<"chat", "*">>}
EventNames == {<<"chat", "start">>, <<"error">>}
EventData == {Raw(1), Cyclic}
Config(event, url, secret, retries) ==
    [event |-> event, url |-> url, secret |-> secret, retries |-> retries]
RegisterCalls ==
    {Config(<<"*">>, ValidUrl, NoSecret, retries) : retries \in RetriesOptions}
        \cup {Config(<<"chat", "*">>, ValidUrl, "key", <<2>>),
              Config(<<"*">>, InvalidUrl, NoSecret, <<>>)}

\* new URL(url) does not throw
URLValid(url) == url = ValidUrl

\* the pattern as a regular expression, each * standing for .*, tested
\* against the whole name
RECURSIVE RegExpMatches(_, _)
RegExpMatches(pattern, eventName) ==
    IF pattern = <<>> THEN eventName = <<>>
    ELSE IF Head(pattern) = "*"
    THEN \E k \in 1..Len(eventName) :
             RegExpMatches(Tail(pattern), SubSeq(eventName, k + 1, Len(eventName)))
    ELSE /\ eventName # <<>>
         /\ Head(pattern) = Head(eventName)
         /\ RegExpMatches(Tail(pattern), Tail(eventName))

matchEventPattern(pattern, eventName) ==
    \/ pattern = eventName
    \/ pattern = <<"*">>
    \/ RegExpMatches(pattern, eventName)

\* the objects of the Map, in its order, that match the event
RECURSIVE findMatchingWebhooks(_, _, _)
findMatchingWebhooks(w, map, eventName) ==
    IF map = <<>> THEN <<>>
    ELSE LET webhook == w.objects[Head(map).object]
             rest == findMatchingWebhooks(w, Tail(map), eventName)
         IN  IF webhook.event = <<"*">>
                \/ matchEventPattern(webhook.event, eventName)
             THEN <<Head(map).object>> \o rest
             ELSE rest

WebhookHas(map, id) == \E i \in DOMAIN map : map[i].id = id

\* Map.prototype.set keeps the place of an id that is already there
WebhookSet(map, id, object) ==
    IF WebhookHas(map, id)
    THEN [i \in DOMAIN map |-> IF map[i].id = id
                               THEN [id |-> id, object |-> object]
                               ELSE map[i]]
    ELSE Append(map, [id |-> id, object |-> object])

WebhookDelete(map, id) == SelectSeq(map, LAMBDA e : e.id # id)

register(w, config, t) ==
    IF config.event = <<>> \/ config.url = "" \/ ~URLValid(config.url)
    THEN [w EXCEPT !.threw = TRUE]
    ELSE LET webhookId == <<config.event, t>>
             webhook == [id |-> webhookId,
                         event |-> config.event,
                         secret |-> config.secret,
                         retries |-> IF config.retries = <<>>
                                     THEN DefaultRetries
                                     ELSE config.retries[1],
                         createdAt |-> t,
                         deliveries |-> 0,
                         failures |-> 0,
                         lastDelivery |-> -1]
         IN  [w EXCEPT !.objects = Append(@, webhook),
                       !.webhooks = WebhookSet(@, webhookId, Len(w.objects) + 1),
                       !.result = webhookId]

unregister(w, webhookId) ==
    [w EXCEPT !.webhooks = WebhookDelete(@, webhookId)]

logDelivery(log, entry) ==
    LET pushed == Append(log, entry)
    IN  IF Len(pushed) > maxLogSize THEN Tail(pushed) ELSE pushed

\* JSON.stringify(payload) throws TypeError
PayloadStringifyThrows(eventData) == eventData.enc = "cyclic"

\* deliverWebhook up to its await of sendHTTPRequest: the payload is built
\* and, for a webhook with a secret, signed; the process then waits for the
\* request (pc "send") or has been rejected by generateSignature
Building(w, object, eventData) ==
    IF w.objects[object].secret # NoSecret /\ PayloadStringifyThrows(eventData)
    THEN "rejected"
    ELSE "send"

deliverWebhook(w, object, eventName, eventData) ==
    [w EXCEPT !.deliveries =
        Append(@, [webhook |-> object, event |-> eventName, data |-> eventData,
                   attempt |-> 1, pc |-> Building(w, object, eventData)])]

RECURSIVE DeliverAll(_, _, _, _)
DeliverAll(w, matching, eventName, eventData) ==
    IF matching = <<>> THEN w
    ELSE DeliverAll(deliverWebhook(w, Head(matching), eventName, eventData),
                    Tail(matching), eventName, eventData)

handleEvent(w, eventName, eventData) ==
    DeliverAll(w, findMatchingWebhooks(w, w.webhooks, eventName),
               eventName, eventData)

\* the entry deliverWebhook logs; delivery is the place of the process, which
\* the program does not record
LogEntry(w, d, status, t) ==
    LET p == w.deliveries[d]
    IN  [id |-> <<w.objects[p.webhook].id, t>>,
         webhookId |-> w.objects[p.webhook].id,
         event |-> p.event, status |-> status, attempt |-> p.attempt,
         timestamp |-> t, delivery |-> d]

\* sendHTTPRequest rejects when the payload cannot be written
sendHTTPRequest(eventData, responded) ==
    responded /\ ~PayloadStringifyThrows(eventData)

\* deliverWebhook of process d from the settling of its request
settle(w, d, responded, t) ==
    LET p == w.deliveries[d]
        webhook == w.objects[p.webhook]
    IN  IF sendHTTPRequest(p.data, responded)
        THEN [w EXCEPT !.log = logDelivery(@, LogEntry(w, d, "success", t)),
                       !.objects[p.webhook].deliveries = @ + 1,
                       !.objects[p.webhook].lastDelivery = t,
                       !.deliveries[d].pc = "resolved"]
        ELSE IF p.attempt < webhook.retries
        THEN [w EXCEPT !.objects[p.webhook].failures = @ + 1,
                       !.log = logDelivery(@, LogEntry(w, d, "retry", t)),
                       !.deliveries[d].pc = "sleep"]
        ELSE [w EXCEPT !.objects[p.webhook].failures = @ + 1,
                       !.log = logDelivery(@, LogEntry(w, d, "failed", t)),
                       !.deliveries[d].pc = "rejected"]

\* the sleep of process d is over: deliverWebhook with attempt + 1
retry(w, d) ==
    LET p == w.deliveries[d]
    IN  [w EXCEPT !.deliveries[d].attempt = @ + 1,
                  !.deliveries[d].pc = Building(w, p.webhook, p.data)]

WebhookManagerConstructed ==
    /\ webhooks = <<>>
    /\ webhookObjects = <<>>
    /\ deliveryLog = <<>>
    /\ deliveries = <<>>

WebhookRun == [webhooks |-> webhooks, objects |-> webhookObjects,
               log |-> deliveryLog, deliveries |-> deliveries,
               result |-> <<>>, threw |-> FALSE]

WebhookCall(op, w) ==
    [op |-> op, time |-> now, result |-> w.result, threw |-> w.threw]

WebhookCommit(w) ==
    /\ webhooks' = w.webhooks
    /\ webhookObjects' = w.objects
    /\ deliveryLog' = w.log
    /\ deliveries' = w.deliveries
    /\ UNCHANGED <<cacheVars, responseVars, agentVars>>

----------------------------------------------------------------------------
(* State machine *)

\* the instance at the start of a method call
Run == [mem |-> memoryCache, disk |-> diskCache, stats |-> stats,
        evicted |-> <<>>, tier |-> "none", written |-> 0, result |-> Null,
        similarity |-> <<0, 1>>, source |-> "none", found |-> FALSE,
        threw |-> FALSE]

\* the record of a call: its arguments, the clock, and what it gave back
Call(op, key, value, r) ==
    [op |-> op, key |-> key, value |-> value, ttl |-> 0,
     threshold |-> <<0, 1>>, pattern |-> "", time |-> now,
     threw |-> r.threw, result |-> r.result, similarity |-> r.similarity,
     source |-> r.source, found |-> r.found, evicted |-> r.evicted,
     tier |-> r.tier,
     had |-> MapHas(memoryCache, hashKey(key)) \/ MapHas(diskCache, hashKey(key))]

\* deadline[hash] is the timestamp and the expiresAt that the caller's latest
\* set gave the entry of hash; it is kept until the caller invalidates or
\* clears the hash
NoDeadline == [hash \in {} |-> 0]

Written(d, hash, given) ==
    [h \in DOMAIN d \cup {hash} |-> IF h = hash THEN given ELSE d[h]]

Kept(d, hashes) == [h \in DOMAIN d \cap hashes |-> d[h]]

\* hashes in the order of their last successful set or get, oldest first
Touch(order, hash) == Append(SelectSeq(order, LAMBDA h : h # hash), hash)

Commit(r, call) ==
    /\ memoryCache' = r.mem
    /\ diskCache' = r.disk
    /\ stats' = r.stats
    /\ last' = call
    /\ budget' = budget - 1
    /\ UNCHANGED <<now, responseVars, agentVars, webhookVars>>

Init ==
    /\ memoryCache = <<>>
    /\ diskCache = <<>>
    /\ stats = NoStats
    /\ now = 0
    /\ last = Call("new", NullKey, Null, Run)
    /\ accessOrder = <<>>
    /\ deadline = NoDeadline
    /\ budget = MaxOps
    /\ ResponseCacheConstructed
    /\ AgentManagerConstructed
    /\ WebhookManagerConstructed

Set(key, value, options) ==
    LET r == set(Run, key, value, options, now)
    IN  /\ budget > 0
        /\ Commit(r, [Call("set", key, value, r) EXCEPT !.ttl = options.ttl])
        /\ accessOrder' = IF r.threw THEN accessOrder
                          ELSE Touch(accessOrder, hashKey(key))
        /\ deadline' = IF r.threw THEN deadline
                       ELSE Written(deadline, hashKey(key),
                                    [timestamp |-> now, expiresAt |-> r.written])

Get(key) ==
    LET r == get(Run, key, now)
    IN  /\ budget > 0
        /\ Commit(r, Call("get", key, Null, r))
        /\ accessOrder' = IF r.source = "none" THEN accessOrder
                          ELSE Touch(accessOrder, hashKey(key))
        /\ UNCHANGED deadline

SemanticGet(query, threshold) ==
    LET r == semanticGet(Run, query, threshold, now)
    IN  /\ budget > 0
        /\ Commit(r, [Call("semanticGet", query, Null, r)
                         EXCEPT !.threshold = threshold])
        /\ UNCHANGED <<accessOrder, deadline>>

Invalidate(key, options) ==
    LET r == invalidate(Run, key, options)
    IN  /\ budget > 0
        /\ Commit(r, [Call("invalidate", key, Null, r)
                         EXCEPT !.pattern = options.pattern])
        /\ UNCHANGED accessOrder
        /\ deadline' = Kept(deadline, MapKeys(r.mem) \cup MapKeys(r.disk))

Clear ==
    LET r == clear(Run)
    IN  /\ budget > 0
        \* had, for clear: both tiers held entries and a counter was not zero
        /\ Commit(r, [Call("clear", NullKey, Null, r)
                         EXCEPT !.had = /\ memoryCache # <<>>
                                        /\ diskCache # <<>>
                                        /\ stats # NoStats])
        /\ accessOrder' = <<>>
        /\ deadline' = NoDeadline

Tick ==
    /\ now < MaxTime
    /\ now' = now + 1
    /\ UNCHANGED <<cacheVars, responseVars, agentVars, webhookVars, last, budget>>

Next ==
    \/ \E key \in Keys, call \in SetCalls :
           Set(key, call[1], [ttl |-> call[2]])
    \/ Set(<<"a">>, Cyclic, [ttl |-> 0])
    \/ \E key \in Keys : Get(key)
    \/ \E query \in Queries, threshold \in Thresholds :
           SemanticGet(query, threshold)
    \/ \E call \in InvalidateCalls :
           Invalidate(call[1], [pattern |-> call[2]])
    \/ Clear
    \/ Tick

Spec == Init /\ [][Next]_vars

(* Longer runs of set, get and clear, on four keys with one small value *)

KeysLong == Keys \cup {<<"c">>}

InitLong ==
    /\ memoryCache = <<>>
    /\ diskCache = <<>>
    /\ stats = NoStats
    /\ now = 0
    /\ last = Call("new", NullKey, Null, Run)
    /\ accessOrder = <<>>
    /\ deadline = NoDeadline
    /\ budget = MaxOpsLong
    /\ ResponseCacheConstructed
    /\ AgentManagerConstructed
    /\ WebhookManagerConstructed

NextLong ==
    \/ \E key \in KeysLong : Set(key, Raw(1), [ttl |-> 0])
    \/ \E key \in KeysLong : Get(key)
    \/ Clear
    \/ Tick

SpecLong == InitLong /\ [][NextLong]_vars

(* Longer runs of set, get and clear in the disk tier, which holds two of    *)
(* the values                                                               *)

NextDisk ==
    \/ \E key \in Keys : Set(key, Raw(3), [ttl |-> 0])
    \/ \E key \in Keys : Get(key)
    \/ Clear
    \/ Tick

SpecDisk == InitLong /\ [][NextDisk]_vars

(* Every method on two keys, with a value for each path through set and    *)
(* fewer calls to choose from than in Spec                                  *)

KeysCore == {<<"a">>, <<"a", "b">>}

SetCallsCore ==
    {<<Raw(1), 0>>, <<Raw(1), 1>>, <<Raw(2), 0>>, <<Raw(3), 0>>, <<Raw(3), 1>>,
     <<Raw(4), 0>>, <<Cyclic, 0>>}

InvalidateCallsCore ==
    {<<<<"a">>, "">>, <<<<"a", "b">>, "">>, <<<<"a">>, "a">>, <<<<"a">>, "(">>,
     <<NullKey, "(">>}

NextCore ==
    \/ \E key \in KeysCore, call \in SetCallsCore :
           Set(key, call[1], [ttl |-> call[2]])
    \/ \E key \in KeysCore : Get(key)
    \/ SemanticGet(<<"a">>, <<1, 2>>)
    \/ \E call \in InvalidateCallsCore :
           Invalidate(call[1], [pattern |-> call[2]])
    \/ Clear
    \/ Tick

SpecCore == Init /\ [][NextCore]_vars

(* The response caches of one directory *)

CacheConstructed ==
    /\ memoryCache = <<>>
    /\ diskCache = <<>>
    /\ stats = NoStats
    /\ accessOrder = <<>>
    /\ deadline = NoDeadline

InitResponse ==
    /\ CacheConstructed
    /\ ResponseCacheConstructed
    /\ AgentManagerConstructed
    /\ WebhookManagerConstructed
    /\ now = 0
    /\ \E ttlArgument \in TtlArguments :
           last = ResponseCall("new", <<>>, Null, ttlArgument, ResponseRun)
    /\ budget = MaxOpsResponse

ResponseNew(ttlArgument) ==
    LET r == responseNew(ResponseRun, ttlArgument)
    IN  /\ budget > 0
        /\ ResponseCommit(r, ResponseCall("new", <<>>, Null, ttlArgument, r))
        /\ UNCHANGED responseInputs

ResponseSet(input, response) ==
    LET r == responseSet(ResponseRun, input, response, now)
    IN  /\ budget > 0
        /\ ResponseCommit(r, ResponseCall("set", input, response,
                                          last.ttlArgument, r))
        /\ responseInputs' = responseInputs \cup {input}

ResponseGet(input) ==
    LET r == responseGet(ResponseRun, input, now)
    IN  /\ budget > 0
        /\ ResponseCommit(r, ResponseCall("get", input, Null,
                                          last.ttlArgument, r))
        /\ UNCHANGED responseInputs

ResponseClear ==
    LET r == responseClear(ResponseRun)
    IN  /\ budget > 0
        /\ ResponseCommit(r, ResponseCall("clear", <<>>, Null,
                                          last.ttlArgument, r))
        /\ UNCHANGED responseInputs

ResponseTick ==
    /\ now < MaxTimeResponse
    /\ now' = now + 1
    /\ UNCHANGED <<cacheVars, responseVars, agentVars, webhookVars, last, budget>>

NextResponse ==
    \/ \E ttlArgument \in TtlArguments : ResponseNew(ttlArgument)
    \/ \E input \in ResponseInputs, response \in Responses :
           ResponseSet(input, response)
    \/ \E input \in ResponseInputs : ResponseGet(input)
    \/ ResponseClear
    \/ ResponseTick

SpecResponse == InitResponse /\ [][NextResponse]_vars

(* One agent manager *)

InitAgent ==
    /\ CacheConstructed
    /\ ResponseCacheConstructed
    /\ AgentManagerConstructed
    /\ WebhookManagerConstructed
    /\ now = 0
    /\ last = AgentCall("new", NoAgent, AgentRun)
    /\ budget = MaxOpsAgent

RegisterAgent(id) ==
    LET m == registerAgent(AgentRun, id, now)
    IN  budget > 0 /\ AgentCommit(m, AgentCall("registerAgent", id, m))

ActivateAgent(agentId) ==
    LET m == activateAgent(AgentRun, agentId, now)
    IN  budget > 0 /\ AgentCommit(m, AgentCall("activateAgent", agentId, m))

ClearHistory ==
    LET m == clearHistory(AgentRun)
    IN  budget > 0 /\ AgentCommit(m, AgentCall("clearHistory", NoAgent, m))

NextAgent ==
    \/ \E id \in NewAgentIds : RegisterAgent(id)
    \/ \E agentId \in AgentIds : ActivateAgent(agentId)
    \/ ClearHistory
    \/ Tick

SpecAgent == InitAgent /\ [][NextAgent]_vars

----------------------------------------------------------------------------
(* One webhook manager *)

InitWebhook ==
    /\ CacheConstructed
    /\ ResponseCacheConstructed
    /\ AgentManagerConstructed
    /\ WebhookManagerConstructed
    /\ now = 0
    /\ last = WebhookCall("new", WebhookRun)
    /\ budget = MaxOpsWebhook

WebhookRegister(config) ==
    LET w == register(WebhookRun, config, now)
    IN  /\ budget > 0
        /\ WebhookCommit(w)
        /\ last' = WebhookCall("register", w)
        /\ budget' = budget - 1
        /\ UNCHANGED now

WebhookUnregister(webhookId) ==
    LET w == unregister(WebhookRun, webhookId)
    IN  /\ budget > 0
        /\ WebhookCommit(w)
        /\ last' = WebhookCall("unregister", w)
        /\ budget' = budget - 1
        /\ UNCHANGED now

HandleEvent(eventName, eventData) ==
    LET w == handleEvent(WebhookRun, eventName, eventData)
    IN  /\ budget > 0
        /\ WebhookCommit(w)
        /\ last' = WebhookCall("handleEvent", w)
        /\ budget' = budget - 1
        /\ UNCHANGED now

\* the request of delivery d settles
Settle(d, responded) ==
    /\ deliveries[d].pc = "send"
    /\ WebhookCommit(settle(WebhookRun, d, responded, now))
    /\ UNCHANGED <<now, last, budget>>

\* the sleep of delivery d ends
Retry(d) ==
    /\ deliveries[d].pc = "sleep"
    /\ WebhookCommit(retry(WebhookRun, d))
    /\ UNCHANGED <<now, last, budget>>

NextWebhook ==
    \/ \E config \in RegisterCalls : WebhookRegister(config)
    \/ \E i \in DOMAIN webhooks : WebhookUnregister(webhooks[i].id)
    \/ \E eventName \in EventNames, eventData \in EventData :
           HandleEvent(eventName, eventData)
    \/ \E d \in DOMAIN deliveries, responded \in BOOLEAN : Settle(d, responded)
    \/ \E d \in DOMAIN deliveries : Retry(d)
    \/ Tick

SpecWebhook == InitWebhook /\ [][NextWebhook]_vars

----------------------------------------------------------------------------
(* Claims *)

\* a step that is one call (Tick is the only other step)
IsCall == budget' = budget - 1

\* the ttl an entry made by set(key, value, {ttl: t}) gets
EffectiveTtl(t) == IF t # 0 THEN t ELSE ttl

\* the value a payload stands for, whether or not it is compressed
Decoded(payload) ==
    decompress(payload, payload.enc = "deflate-base64")

\* the place of a hash in the order of last accesses
Pos(order, hash) == CHOOSE i \in DOMAIN order : order[i] = hash

\* C1: set(key, value) followed immediately by get(key) returns a value
\* equal to the value that was set, whether or not it was compressed.
C1_RoundTrip ==
    [][(/\ IsCall
        /\ last.op = "set" /\ ~last.threw
        /\ last'.op = "get" /\ last'.key = last.key
        /\ last'.time = last.time)
       => last'.result = last.value]_vars

\* C2: in every reachable state the stored sizes of the memory tier sum to
\* at most maxMemorySize and those of the disk tier to at most maxDiskSize.
C2_Budget ==
    /\ getMemorySizeUsage <= maxMemorySize
    /\ getDiskSizeUsage <= maxDiskSize

\* C3: no hash is in the memory tier map and in the disk tier map at once.
C3_TierExclusive == MapKeys(memoryCache) \cap MapKeys(diskCache) = {}

\* C4: after set(key, v1) and then set(key, v2), with no eviction or expiry
\* in between, get(key) returns v2 and never v1, whatever tiers v1 and v2
\* were placed in.  What get returns is compared with v2 as the value it
\* encodes: whether get hands out the encoding is C1's matter.
C4_LastWriteWins ==
    [][(/\ IsCall
        /\ last.op = "set" /\ ~last.threw /\ last.had /\ last.evicted = <<>>
        /\ last'.op = "get" /\ last'.key = last.key
        /\ last'.time < last.time + EffectiveTtl(last.ttl))
       => Decoded(last'.result) = last.value]_vars

\* C5: after set(key, value, {ttl: T}) at time t0, get(key) at time t returns
\* the value when t - t0 < T and absent when t - t0 >= T (also at t - t0 = T).
\* Stated for a key that had no entry and a set that evicted nothing, and up
\* to the encoding of what get returns, so that only the expiry decides.
C5_TtlExpiry ==
    [][(/\ IsCall
        /\ last.op = "set" /\ ~last.threw /\ last.ttl # 0
        /\ ~last.had /\ last.evicted = <<>>
        /\ last'.op = "get" /\ last'.key = last.key)
       => /\ last'.time - last.time < last.ttl
             => Decoded(last'.result) = last.value
          /\ last'.time - last.time >= last.ttl
             => last'.result = Null]_vars

\* C6: a get(key) satisfied by a live disk-tier entry returns the value and
\* leaves the entry for key in the memory tier, so that the next get(key) is
\* served from the memory tier.
C6_Promotion ==
    [][/\ (IsCall /\ last'.op = "get" /\ last'.source = "disk")
          => /\ last'.result # Null
             /\ MapHas(memoryCache', hashKey(last'.key))
       /\ (/\ IsCall
           /\ last.op = "get" /\ last.source = "disk"
           /\ last'.op = "get" /\ last'.key = last.key
           /\ last'.time = last.time)
          => last'.source = "memory"]_vars

\* C7: when a set into the memory tier evicts, the evicted entry is the
\* memory-tier entry whose last successful access (set or get) is the
\* oldest: with A, B, C set in that order, A read by get and D set, B goes
\* and A stays.  accessOrder is the order in which the calls were made.
C7_LruOrder ==
    (last.op = "set" /\ last.tier = "memory" /\ last.evicted # <<>>)
    => \A hash \in MapKeys(memoryCache) :
           Pos(accessOrder, last.evicted[1].hash) < Pos(accessOrder, hash)

\* C8: invalidate(null, {pattern: p}) completes without error, removes from
\* both tiers exactly the entries whose key matches p and leaves every other
\* entry as it was.
C8_PatternInvalidation ==
    [][(/\ IsCall
        /\ last'.op = "invalidate" /\ last'.key = NullKey
        /\ last'.pattern # "" /\ RegExpValid(last'.pattern))
       => /\ ~last'.threw
          /\ memoryCache' = SelectSeq(memoryCache,
                 LAMBDA e : ~RegExpTest(last'.pattern, e.key))
          /\ diskCache' = SelectSeq(diskCache,
                 LAMBDA e : ~RegExpTest(last'.pattern, e.key))]_vars

\* the live entries of the memory tier at time t
LiveMemory(t) ==
    {memoryCache[i] : i \in {j \in DOMAIN memoryCache :
                                 ~isExpired(memoryCache[j], t)}}

\* C9: semanticGet(query, threshold) returns a result exactly when the
\* largest similarity of query to the key of a live memory-tier entry is
\* >= threshold (also for threshold 0); the result carries that similarity
\* and the value of an entry that has it; a query equal to a live cached key
\* matches with similarity 1.  (semanticGet leaves the memory tier as it is,
\* so the tier after the call is the tier the call searched.)
C9_SemanticGet ==
    (last.op = "semanticGet")
    => LET live == LiveMemory(last.time)
           Sim(e) == calculateSimilarity(last.key, e.key)
           IsMax(e) == \A f \in live : FracGE(Sim(e), Sim(f))
           reaches == \E e \in live : FracGE(Sim(e), last.threshold)
       IN  /\ last.found <=> reaches
           /\ last.found =>
                  \E e \in live :
                      /\ IsMax(e)
                      /\ FracEQ(last.similarity, Sim(e))
                      /\ Decoded(last.result) = Decoded(e.value)
           /\ (\E e \in live : e.key = last.key)
                  => last.found /\ FracEQ(last.similarity, <<1, 1>>)

\* C10: getStats().hitRate is hits / (hits + misses) as a fraction in [0, 1]
\* (0.75 after 3 hits and 1 miss), and 0 when no request was made.  The
\* fraction is read to the two decimals the text of hitRate shows.
C10_HitRateFraction ==
    LET totalRequests == stats.hits + stats.misses
        shown == getStats.hitRate.hundredths
    IN  IF totalRequests = 0 THEN shown = 0
        ELSE /\ shown <= 100
             /\ 2 * (shown * totalRequests - 100 * stats.hits) <= totalRequests
             /\ 2 * (100 * stats.hits - shown * totalRequests) <= totalRequests

\* C10, amended: hitRate is the percentage 100 * hits / (hits + misses),
\* rounded to two decimals and given as text ("75.00" after 3 hits and 1
\* miss), and "0.00" when no request was made.
C10_HitRatePercent ==
    LET totalRequests == stats.hits + stats.misses
        hitRate == getStats.hitRate
    IN  /\ hitRate.type = "string"
        /\ IF totalRequests = 0 THEN hitRate.hundredths = 0
           ELSE /\ 2 * (hitRate.hundredths * totalRequests
                            - 10000 * stats.hits) <= totalRequests
                /\ 2 * (10000 * stats.hits
                            - hitRate.hundredths * totalRequests) < totalRequests

\* three hits and one miss were counted, and hitRate reads "75.00"
C10_Witness ==
    /\ stats.hits = 3
    /\ stats.misses = 1
    /\ getStats.hitRate = [type |-> "string", hundredths |-> 7500]

\* C11: after clear() both tiers are empty and the hit, miss, compression and
\* eviction counters are all zero, and get(key) returns absent for every key,
\* in particular for every key that was cached before the call.
C11_ClearResets ==
    [][(IsCall /\ last'.op = "clear")
       => /\ memoryCache' = <<>>
          /\ diskCache' = <<>>
          /\ stats' = NoStats
          /\ \A key \in KeysLong : get(Run, key, now)'.result = Null]_vars

C11_Witness ==
    /\ last.op = "clear"
    /\ last.had
    /\ memoryCache = <<>>
    /\ diskCache = <<>>
    /\ stats = NoStats

\* C12: invalidate(key) with a string key and no pattern returns normally,
\* removes the hash of key from the memory tier and from the disk tier, so
\* that get(key) on the resulting state returns absent, and leaves every
\* entry under another hash, in its place, and the four counters unchanged.
C12_SingleKeyInvalidation ==
    [][(IsCall /\ last'.op = "invalidate" /\ last'.key # NullKey
            /\ last'.pattern = "")
       => LET hash == hashKey(last'.key)
          IN  /\ ~last'.threw
              /\ ~MapHas(memoryCache', hash)
              /\ ~MapHas(diskCache', hash)
              /\ get(Run, last.key, now)'.result = Null
              /\ memoryCache' = SelectSeq(memoryCache, LAMBDA e : e.hash # hash)
              /\ diskCache' = SelectSeq(diskCache, LAMBDA e : e.hash # hash)
              /\ stats' = stats]_vars

\* a key that was cached has been invalidated, and another entry is still
\* in the cache
C12_Witness ==
    /\ last.op = "invalidate"
    /\ last.key # NullKey
    /\ last.pattern = ""
    /\ last.had
    /\ ~last.threw
    /\ Len(memoryCache) + Len(diskCache) > 0

\* an entry under the hash of key that has not expired at time t
Live(m, key, t) == MapHas(m, hashKey(key)) /\ ~isExpired(MapGet(m, hashKey(key)), t)

\* C13: get(key) with a string key returns without throwing and adds one to
\* exactly one of the two counters: to hits, leaving misses, when an entry
\* of key that has not expired is in the memory tier or in the disk tier
\* (also when the disk hit re-inserts through set), and otherwise to misses,
\* leaving hits, and then it returns absent.
C13_HitMissAccounting ==
    [][(IsCall /\ last'.op = "get")
       => /\ ~last'.threw
          /\ IF Live(memoryCache, last'.key, now) \/ Live(diskCache, last'.key, now)
             THEN /\ stats'.hits = stats.hits + 1
                  /\ stats'.misses = stats.misses
             ELSE /\ stats'.misses = stats.misses + 1
                  /\ stats'.hits = stats.hits
                  /\ last'.result = Null]_vars

\* a miss, then a disk hit whose promotion compressed the value a second time
C13_Witness ==
    /\ last.op = "get"
    /\ last.source = "disk"
    /\ stats.hits = 1
    /\ stats.misses = 1
    /\ stats.compression = 2

\* C14: get(key) returns nothing later than the expiresAt = t0 + T that the
\* caller's latest set(key, ...) gave the entry; reads, also those that find
\* the entry in the disk tier, do not extend the expiry.  (Stated for a key
\* held in one tier only, which leaves out the reads of an older copy.)
C14_TtlIndependentOfAccess ==
    [][(IsCall /\ last'.op = "get" /\ last'.source # "none"
            /\ hashKey(last'.key) \in DOMAIN deadline
            /\ ~(MapHas(memoryCache, hashKey(last'.key))
                     /\ MapHas(diskCache, hashKey(last'.key))))
       => last'.time <= deadline[hashKey(last'.key)].expiresAt]_vars

\* C15: invalidate(key, {pattern: p}) with a p that is no valid regular
\* expression raises an error, removes no entry from either tier and
\* changes no counter.
C15_MalformedPattern ==
    [][(IsCall /\ last'.op = "invalidate" /\ last'.pattern # ""
            /\ ~RegExpValid(last'.pattern))
       => /\ last'.threw
          /\ memoryCache' = memoryCache
          /\ diskCache' = diskCache
          /\ stats' = stats]_vars

\* invalidate('a', {pattern: '('}) has thrown on a cache that holds 'a' in
\* both tiers and has counted a compression
C15_Witness ==
    /\ last.op = "invalidate"
    /\ last.key = <<"a">>
    /\ last.pattern = "("
    /\ last.threw
    /\ MapHas(memoryCache, hashKey(<<"a">>))
    /\ MapHas(diskCache, hashKey(<<"a">>))
    /\ stats.compression > 0

\* C16: set(key, value) with a value that cannot be serialized raises an
\* error and leaves both tier maps and the four counters as they were; no
\* entry of the value is stored, and get(key) gives what it gave before.
C16_SerializationFailure ==
    [][(IsCall /\ last'.op = "set" /\ getSizeThrows(last'.value))
       => /\ last'.threw
          /\ memoryCache' = memoryCache
          /\ diskCache' = diskCache
          /\ stats' = stats
          /\ get(Run, last.key, now)'.result = get(Run, last'.key, now).result]_vars

\* set of the cyclic value has thrown for a key that was cached, and get of
\* the key still returns a value
C16_Witness ==
    /\ last.op = "set"
    /\ last.value = Cyclic
    /\ last.threw
    /\ last.had
    /\ get(Run, last.key, now).result # Null

\* what set stores for a value: its deflated text above the threshold
Stored(value) ==
    IF getSize(value) > compressionThreshold THEN compress(value) ELSE value

\* C20 (as claimed): set places the new entry in the memory tier exactly
\* when the total size of the memory tier with the new entry in it is
\* within maxMemorySize, and in the disk tier otherwise.
C20_TierByTotal ==
    [][(IsCall /\ last'.op = "set" /\ ~last'.threw)
       => LET hash == hashKey(last'.key)
              others == SelectSeq(memoryCache, LAMBDA e : e.hash # hash)
              total == SumSizes(others) + getSize(Stored(last'.value))
          IN  (last'.tier = "memory") <=> (total <= maxMemorySize)]_vars

\* C20 (amended): set places the new entry in the memory tier exactly when
\* the size of the value itself, taken before compression, is below
\* maxMemorySize, and in the disk tier otherwise, whatever the tiers hold;
\* the other tier is left as it was, and unless the call evicted an entry
\* the chosen tier holds the value under the hash of the key.
C20_TierByOwnSize ==
    [][(IsCall /\ last'.op = "set" /\ ~last'.threw)
       => LET hash == hashKey(last'.key)
              fits == getSize(last'.value) < maxMemorySize
              chosen == IF fits THEN memoryCache' ELSE diskCache'
          IN  /\ last'.tier = IF fits THEN "memory" ELSE "disk"
              /\ IF fits THEN diskCache' = diskCache
                 ELSE memoryCache' = memoryCache
              /\ last'.evicted = <<>>
                    => /\ MapHas(chosen, hash)
                       /\ MapGet(chosen, hash).value = Stored(last'.value)
                       /\ MapGet(chosen, hash).timestamp = now]_vars

\* a value smaller than maxMemorySize went to the memory tier although the
\* tier's total with it was over maxMemorySize, and an entry was evicted
C20_Witness ==
    /\ last.op = "set"
    /\ ~last.threw
    /\ getSize(last.value) < maxMemorySize
    /\ last.tier = "memory"
    /\ last.evicted # <<>>
    /\ stats.evictions > 0

\* what the memory map and the directory hold for an input
Copies(input) ==
    LET key == generateKey(input)
    IN  {responseMemoryCache[k] : k \in DOMAIN responseMemoryCache \cap {key}}
            \cup {cacheDir[k] : k \in DOMAIN cacheDir \cap {key}}

\* the stored values of an input whose age at the time of a get is more than ttl
ExpiredFor(input, t) ==
    /\ Copies(input) # {}
    /\ \A cached \in Copies(input) : now - cached.timestamp > t

\* C17: a ResponseCache constructed with (cacheDir, ttl) has cache.ttl equal
\* to the ttl argument, and get(input) returns null once more than ttl
\* milliseconds have elapsed since the set that stored the value, whether the
\* value is in the memory map or in the file of the directory.
C17_ResponseTtl ==
    [][IsCall
       => /\ responseTtl' = last'.ttlArgument
          /\ (last'.op = "get" /\ ExpiredFor(last'.input, last'.ttlArgument))
                => last'.result = Null]_vars

\* C18: on one ResponseCache, set(input, v) followed by get(input) before
\* the instance's ttl has elapsed returns v, also for v = null and
\* v = undefined; and get(input) for an input that no set was ever given in
\* this cache directory returns null.
C18_ResponseRoundTrip ==
    [][/\ (IsCall /\ last.op = "set" /\ last'.op = "get"
              /\ last'.input = last.input
              /\ last'.time - last.time < responseTtl)
          => last'.result = last.value
       /\ (IsCall /\ last'.op = "get" /\ last'.input \notin responseInputs)
          => last'.result = Null]_vars

\* get has returned undefined for an input that was set to undefined, while
\* another input was never set
C18_Witness ==
    /\ last.op = "get"
    /\ last.result = Undefined
    /\ last.input \in responseInputs
    /\ generateKey(last.input) \in DOMAIN responseMemoryCache
    /\ responseMemoryCache[generateKey(last.input)].value = Undefined
    /\ responseInputs # ResponseInputs

\* C19: activateAgent(id) with an id that is not registered throws an error,
\* and leaves activeAgent and agentHistory unchanged.
C19_ActivateUnknownThrows ==
    [][(IsCall /\ last'.op = "activateAgent" /\ last'.agentId \notin DOMAIN agents)
       => /\ last'.threw
          /\ activeAgent' = activeAgent
          /\ agentHistory' = agentHistory]_vars

\* C21: semanticGet returns only entries of the memory tier that have not
\* expired, and an expired entry takes no part in the maximum: when some
\* live memory-tier entry has a similarity >= threshold (and above 0),
\* semanticGet returns the value of a live memory-tier entry, whatever
\* the similarity of an expired entry is.
C21_SemanticLiveOnly ==
    (last.op = "semanticGet")
    => LET live == LiveMemory(last.time)
           Sim(e) == calculateSimilarity(last.key, e.key)
           returnsLive == /\ last.found
                          /\ \E e \in live : /\ FracGE(Sim(e), last.threshold)
                                             /\ last.result = e.value
       IN  /\ last.found => returnsLive
           /\ (\E e \in live : /\ FracGE(Sim(e), last.threshold)
                               /\ FracGT(Sim(e), <<0, 1>>))
                 => returnsLive

\* the size of a tier with the entry of a set in it, before the size check
SizeWith(m, key, value) ==
    SumSizes(SelectSeq(m, LAMBDA e : e.hash # hashKey(key)))
        + getSize(Stored(value))

\* the entries of a tier with the entry of a set in it
LenWith(m, key) == Len(m) + (IF MapHas(m, hashKey(key)) THEN 0 ELSE 1)

\* C22: the size check after an insertion removes exactly one entry from
\* the tier when the tier is over its budget and none when it is not, in
\* the memory tier and in the disk tier, and the eviction counter goes up
\* by the number of entries evicted; invalidate, the removal of expired
\* entries and semanticGet leave the counter alone, and clear sets it to 0.
C22_SingleEviction ==
    [][IsCall
       => /\ (last'.op = "set" /\ ~last'.threw)
                => LET inMemory == last'.tier = "memory"
                       tier == IF inMemory THEN memoryCache ELSE diskCache
                       tierAfter == IF inMemory THEN memoryCache' ELSE diskCache'
                       budgetOf == IF inMemory THEN maxMemorySize ELSE maxDiskSize
                       over == SizeWith(tier, last'.key, last'.value) > budgetOf
                       removed == IF over THEN 1 ELSE 0
                   IN  /\ Len(tierAfter) = LenWith(tier, last'.key) - removed
                       /\ Len(last'.evicted) = removed
                       /\ stats'.evictions = stats.evictions + removed
          /\ (last'.op = "get")
                => /\ Len(last'.evicted) <= 1
                   /\ stats'.evictions = stats.evictions + Len(last'.evicted)
                   /\ last'.source # "disk" => last'.evicted = <<>>
          /\ (last'.op \in {"invalidate", "semanticGet"} \/ last'.threw)
                => stats'.evictions = stats.evictions
          /\ (last'.op = "clear") => stats'.evictions = 0]_vars

\* a set into the disk tier evicted one entry and left the tier over its
\* budget, with the eviction counted once
C22_Witness ==
    /\ last.op = "set"
    /\ last.tier = "disk"
    /\ Len(last.evicted) = 1
    /\ Len(diskCache) = 1
    /\ getDiskSizeUsage > maxDiskSize
    /\ stats.evictions = 1

\* C23: when an insertion into the disk tier evicts, the entry removed is
\* the one of the tier, the new entry included, that the caller created
\* earliest (no entry of the tier was created before it), however recently
\* or often the disk entries were read.
C23_DiskOldestCreated ==
    (last.op = "set" /\ last.tier = "disk" /\ last.evicted # <<>>)
    => \A hash \in MapKeys(diskCache) :
           deadline[last.evicted[1].hash].timestamp <= deadline[hash].timestamp

\* an entry under the hash of key that has expired at time t
Expired(m, key, t) == MapHas(m, hashKey(key)) /\ isExpired(MapGet(m, hashKey(key)), t)

\* C24: a get(key) that finds an expired entry of key in the memory tier
\* removes it and goes on to the disk tier (a live disk entry is a hit); a
\* get(key) that goes to the disk tier and finds an expired entry there
\* removes it; and after a get(key) that returned absent neither tier has
\* an entry of key.
C24_ExpiryRemoval ==
    [][(IsCall /\ last'.op = "get")
       => LET hash == hashKey(last'.key)
              key == last'.key
          IN  /\ Expired(memoryCache, key, now)
                    => /\ ~MapHas(memoryCache', hash)
                       /\ Live(diskCache, key, now) => last'.source = "disk"
              /\ (~Live(memoryCache, key, now) /\ Expired(diskCache, key, now))
                    => ~MapHas(diskCache', hash)
              /\ last'.result = Null
                    => ~MapHas(memoryCache', hash) /\ ~MapHas(diskCache', hash)]_vars

\* at time 2 a get found the key cached and expired, returned absent and
\* left no entry of the key in either tier
C24_Witness ==
    /\ last.op = "get"
    /\ last.had
    /\ last.result = Null
    /\ last.time = 2
    /\ stats.compression = 1
    /\ ~MapHas(memoryCache, hashKey(last.key))
    /\ ~MapHas(diskCache, hashKey(last.key))

\* C25: every successful read of an entry adds one to its accessCount and
\* sets its lastAccess to the time of the read: a get hit from the memory
\* tier, a get hit from the disk tier, and a semanticGet match (so that
\* accessCount counts the successful reads since the caller's set).
C25_AccessMetadata ==
    [][IsCall
       => /\ (last'.op = "get" /\ last'.source = "memory")
                => LET before == MapGet(memoryCache, hashKey(last'.key))
                       after == MapGet(memoryCache', hashKey(last'.key))
                   IN  /\ after.accessCount = before.accessCount + 1
                       /\ after.lastAccess = now
          /\ (last'.op = "get" /\ last'.source = "disk")
                => LET hash == hashKey(last'.key)
                       before == MapGet(diskCache, hash)
                   IN  \A m \in {memoryCache', diskCache'} :
                           (MapHas(m, hash) /\ MapGet(m, hash).timestamp = now)
                              => /\ MapGet(m, hash).accessCount
                                        = before.accessCount + 1
                                 /\ MapGet(m, hash).lastAccess = now
          /\ (last'.op = "semanticGet" /\ last'.found)
                => \E i \in DOMAIN memoryCache :
                       /\ memoryCache[i].value = last'.result
                       /\ FracEQ(calculateSimilarity(last'.key, memoryCache[i].key),
                                 last'.similarity)
                       /\ Len(memoryCache') = Len(memoryCache)
                       /\ memoryCache'[i].accessCount
                              = memoryCache[i].accessCount + 1
                       /\ memoryCache'[i].lastAccess = now]_vars

\* C26: semanticGet(query, threshold) adds no entry under the hash of the
\* query, removes no entry and leaves the hashes of both tiers, in their
\* order, as they were; it adds one to the hit counter when it returns a
\* match and changes no counter when it returns absent.
C26_SemanticGetFrame ==
    [][(IsCall /\ last'.op = "semanticGet")
       => LET Hashes(m) == [i \in DOMAIN m |-> m[i].hash]
          IN  /\ Hashes(memoryCache') = Hashes(memoryCache)
              /\ Hashes(diskCache') = Hashes(diskCache)
              /\ stats' = IF last'.found
                          THEN [stats EXCEPT !.hits = @ + 1]
                          ELSE stats]_vars

\* semanticGet has returned the entry of another key for a query that is
\* itself not cached, and counted the hit
C26_Witness ==
    /\ last.op = "semanticGet"
    /\ last.found
    /\ ~MapHas(memoryCache, hashKey(last.key))
    /\ ~MapHas(diskCache, hashKey(last.key))
    /\ stats.hits > 0

\* C28: when semanticGet returns a match, for the entry cached under key k,
\* the value returned is what get(k) returns for that entry at the same
\* moment, and it is the value that was passed to set, not its compressed
\* text, below and above the compression threshold.
C28_SemanticGetValue ==
    (last.op = "semanticGet" /\ last.found)
    => \E i \in DOMAIN memoryCache :
           LET entry == memoryCache[i]
           IN  /\ FracEQ(calculateSimilarity(last.key, entry.key), last.similarity)
               /\ last.result = get(Run, entry.key, last.time).result
               /\ last.result = decompress(entry.value, entry.compressed)

\* C29: an insertion never evicts itself: when set(key, value) returns, no
\* entry it evicted is the entry just inserted for key, and the entry for key
\* is present in the tier it was inserted into, also when other entries carry
\* the same timestamp or the new entry alone exceeds the tier's budget.
C29_NoSelfEviction ==
    (last.op = "set" /\ ~last.threw)
    => /\ \A i \in DOMAIN last.evicted : last.evicted[i].hash # hashKey(last.key)
       /\ last.tier = "memory" => MapHas(memoryCache, hashKey(last.key))
       /\ last.tier = "disk" => MapHas(diskCache, hashKey(last.key))

\* C30: get(key) never removes, replaces or changes an entry stored under a
\* hash other than hash(key), in either tier, and never changes the
\* compression or eviction counters, also when it is a disk hit that
\* re-inserts the entry through set.
C30_GetFrame ==
    [][(IsCall /\ last'.op = "get")
       => LET Others(m) == {m[i] : i \in {j \in DOMAIN m :
                                             m[j].hash # hashKey(last'.key)}}
          IN  /\ Others(memoryCache') = Others(memoryCache)
              /\ Others(diskCache') = Others(diskCache)
              /\ stats'.compression = stats.compression
              /\ stats'.evictions = stats.evictions]_vars

\* the entries of the delivery log that delivery d wrote with a status
Logged(d, status) ==
    Cardinality({i \in DOMAIN deliveryLog :
                    /\ deliveryLog[i].delivery = d
                    /\ deliveryLog[i].status = status})

\* C27: for a webhook registered with retries = R >= 1, a delivery makes at
\* most R send attempts, has logged one 'retry' entry for each failed attempt
\* before the R-th, and when it has ended it has logged exactly one terminal
\* entry: 'success' if its last attempt succeeded, or 'failed', with the
\* error rethrown, once R attempts have failed.
C27_DeliveryRetry ==
    \A d \in DOMAIN deliveries :
        LET p == deliveries[d]
            R == webhookObjects[p.webhook].retries
        IN  R >= 1 =>
            /\ p.attempt <= R
            /\ Logged(d, "retry") = IF p.pc = "sleep" THEN p.attempt
                                                       ELSE p.attempt - 1
            /\ Logged(d, "success") + Logged(d, "failed")
                   = IF p.pc \in {"resolved", "rejected"} THEN 1 ELSE 0
            /\ p.pc = "resolved" => Logged(d, "success") = 1
            /\ p.pc = "rejected" => Logged(d, "failed") = 1 /\ p.attempt = R

====
